---- MODULE Spec2Model ----
(***************************************************************************)
(* A model of dottorrent's Torrent class (src/dottorrent/__init__.py):     *)
(* the validating setters, get_info(), the piece-hashing loop of           *)
(* generate(), the assembly of the metainfo document and the accessors     *)
(* that need a generated document.                                         *)
(*                                                                         *)
(* Bytes are symbolic: a run <<k, lo, hi>> stands for the bytes lo..hi-1   *)
(* of the k-th file of the file list, and a byte string is a sequence of   *)
(* runs.  Digests are modelled as injective functions of the byte string   *)
(* they are computed over.  Path names are sequences of segments and a     *)
(* segment is a sequence of one-character strings.                         *)
(***************************************************************************)
EXTENDS Integers, Sequences, FiniteSets, TLC

\* ------------------------------------------------------------------------
\* Program constants
\* ------------------------------------------------------------------------
MIN_PIECE_SIZE == 16384

MAX_PIECE_SIZE == 4194304

TARGET_PIECES == 1500

SHA1_LEN == 20

\* "dottorrent/{} (https://github.com/kz26/dottorrent)".format(__version__);
\* __version__ stands for the string of dottorrent/version.py
DEFAULT_CREATOR == "dottorrent/__version__ (https://github.com/kz26/dottorrent)"

\* ------------------------------------------------------------------------
\* Bounds of the model
\* ------------------------------------------------------------------------
MaxFiles == 2

MaxTrackers == 3

MaxExp == 29

\* assignments to the Torrent's fields after construction
MaxAssign == 2

\* ------------------------------------------------------------------------
\* Python values
\* ------------------------------------------------------------------------
\* An optional value is <<>> (None, or a missing attribute) or <<v>>.
None == <<>>

Some(v) == <<v>>

Val(o) == o[1]

\* str.encode(): the UTF-8 bytes of a string, a value of another type.
Encode(s) == [bytes |-> s]

Min(a, b) == IF a < b THEN a ELSE b

Max(a, b) == IF a > b THEN a ELSE b

\* math.ceil(a / b) for 0 <= a < 2^31 and b a power of two: on these the
\* float quotient a / b is exact.  (It is exact up to a = 2^53; beyond,
\* a / b is rounded before math.ceil sees it, and sizes of that order are
\* outside the model.)
CeilDiv(a, b) == (a + b - 1) \div b

Last(s) == s[Len(s)]

\* ------------------------------------------------------------------------
\* Path names.  A path string is modelled by its split on os.sep: "d" is
\* <<d>>, "d/" is <<d, "">>, "/" is <<"", "">>, "/a" is <<"", a>>; the
\* empty segment is <<>>.
\* ------------------------------------------------------------------------
Dot == <<".">>

DotDot == <<".", ".">>

RECURSIVE NormComps(_, _, _)
\* the loop of os.path.normpath over the components: empty and "."
\* components go, ".." takes back the component before it (it stays at the
\* start of a relative path and goes at the root)
NormComps(segs, acc, lead) ==
    IF segs = <<>> THEN acc
    ELSE LET c == Head(segs)
         IN  IF c = <<>> \/ c = Dot
             THEN NormComps(Tail(segs), acc, lead)
             ELSE IF c # DotDot \/ (lead = 0 /\ acc = <<>>)
                       \/ (acc # <<>> /\ Last(acc) = DotDot)
                  THEN NormComps(Tail(segs), Append(acc, c), lead)
                  ELSE IF acc # <<>>
                       THEN NormComps(Tail(segs), SubSeq(acc, 1, Len(acc) - 1), lead)
                       ELSE NormComps(Tail(segs), acc, lead)

\* os.path.normpath (POSIX): redundant separators, "." and ".." go, the
\* empty result is ".", one or exactly two leading slashes stay.
normpath(segs) ==
    LET n == Len(segs)
        lead == IF n >= 3 /\ segs[1] = <<>> /\ segs[2] = <<>>
                   /\ ~(n >= 4 /\ segs[3] = <<>>)
                THEN 2
                ELSE IF n >= 2 /\ segs[1] = <<>> THEN 1 ELSE 0
        comps == NormComps(segs, <<>>, lead)
        slashes == [k \in 1..lead |-> <<>>]
    IN  IF lead > 0
        THEN (IF comps = <<>> THEN slashes \o << <<>> >> ELSE slashes \o comps)
        ELSE (IF comps = <<>> THEN <<Dot>> ELSE comps)

\* os.path.join(dirpath, fn) for a relative file name fn
join(dirpath, fn) ==
    IF dirpath # <<>> /\ Last(dirpath) = <<>>
    THEN SubSeq(dirpath, 1, Len(dirpath) - 1) \o <<fn>>
    ELSE dirpath \o <<fn>>

\* is_hidden_file (the non-Windows definition): the last segment starts
\* with a dot.
is_hidden_file(fpath) ==
    LET fn == Last(fpath)
    IN  Len(fn) > 0 /\ fn[1] = "."

RECURSIVE fnmatch(_, _)
\* fnmatch.fnmatch for patterns made of literal characters, "?" and "*"
fnmatch(fn, pat) ==
    IF pat = <<>> THEN fn = <<>>
    ELSE IF Head(pat) = "*"
         THEN fnmatch(fn, Tail(pat)) \/ (fn # <<>> /\ fnmatch(Tail(fn), pat))
         ELSE /\ fn # <<>>
              /\ (Head(pat) = "?" \/ Head(pat) = Head(fn))
              /\ fnmatch(Tail(fn), Tail(pat))

\* any(fnmatch.fnmatch(fn, ext) for ext in self.exclude)
Excluded(fn, excl) == \E k \in 1..Len(excl) : fnmatch(fn, excl[k])

\* ------------------------------------------------------------------------
\* The file system under the input path.  A tree is
\*   [kind |-> "file", arg |-> path argument, size |-> bytes]   or
\*   [kind |-> "dir",  arg |-> path argument,
\*    walk |-> the files in os.walk order, each [sub |-> directory below
\*             the root, fn |-> file name, size |-> bytes]].
\* ------------------------------------------------------------------------
FileTree(arg, size) == [kind |-> "file", arg |-> arg, size |-> size, walk |-> <<>>]

DirTree(arg, walk) == [kind |-> "dir", arg |-> arg, size |-> 0, walk |-> walk]

Entry(sub, fn, size) == [sub |-> sub, fn |-> fn, size |-> size]

\* os.path.exists / os.path.isfile / os.path.getsize on the input path
exists(tree, present) == present

isfile(tree, present) == present /\ tree.kind = "file"

RECURSIVE WalkDir(_, _)
\* x[0] of os.walk: the directory sub below the walked path
WalkDir(path, sub) ==
    IF sub = <<>> THEN path
    ELSE join(WalkDir(path, SubSeq(sub, 1, Len(sub) - 1)), Last(sub))

RECURSIVE WalkFiles(_, _, _)
\* generate(): the (fpath, fsize, {}) tuples collected from os.walk, in
\* walk order, without excluded names, empty files and hidden files.
WalkFiles(path, walk, excl) ==
    IF walk = <<>> THEN <<>>
    ELSE LET e == Head(walk)
             fpath == normpath(join(WalkDir(path, e.sub), e.fn))
             rest == WalkFiles(path, Tail(walk), excl)
         IN  IF Excluded(e.fn, excl) THEN rest
             ELSE IF e.size # 0 /\ ~is_hidden_file(fpath)
                  THEN <<[fpath |-> fpath, fsize |-> e.size, md5sum |-> None]>> \o rest
                  ELSE rest

RECURSIVE WalkTotals(_, _, _)
\* get_info(): (total_size, total_files) accumulated over os.walk
WalkTotals(path, walk, excl) ==
    IF walk = <<>> THEN [total_size |-> 0, total_files |-> 0]
    ELSE LET e == Head(walk)
             fpath == normpath(join(WalkDir(path, e.sub), e.fn))
             rest == WalkTotals(path, Tail(walk), excl)
         IN  IF Excluded(e.fn, excl) THEN rest
             ELSE IF e.size # 0 /\ ~is_hidden_file(fpath)
                  THEN [total_size |-> e.size + rest.total_size,
                        total_files |-> 1 + rest.total_files]
                  ELSE rest

RECURSIVE SumSizes(_)
\* sum([x[1] for x in files])
SumSizes(fl) == IF fl = <<>> THEN 0 ELSE Head(fl).fsize + SumSizes(Tail(fl))

\* ------------------------------------------------------------------------
\* Piece size: the validating setter and the heuristic of get_info()
\* ------------------------------------------------------------------------
\* value & (value - 1) == 0 for value > 0
RECURSIVE IsPow2(_)
IsPow2(n) == IF n = 1 THEN TRUE
             ELSE IF n < 1 \/ n % 2 = 1 THEN FALSE
             ELSE IsPow2(n \div 2)

\* Python truthiness of a piece_size argument: None and 0 are falsy
Truthy(value) == value # None /\ Val(value) # 0

\* The piece_size setter: the outcome of `self.piece_size = value`, given
\* the stored value cur.  Returns the new stored value and what was raised.
SetPieceSizeOutcome(cur, value) ==
    IF Truthy(value)
    THEN IF Val(value) > 0 /\ IsPow2(Val(value))
         THEN IF Val(value) < MIN_PIECE_SIZE
              THEN [piece_size |-> cur, raised |-> "InvalidPieceSize", warned |-> FALSE]
              ELSE [piece_size |-> Some(Val(value)), raised |-> "none",
                    warned |-> Val(value) > MAX_PIECE_SIZE]
         ELSE [piece_size |-> cur, raised |-> "InvalidPieceSize", warned |-> FALSE]
    ELSE [piece_size |-> None, raised |-> "none", warned |-> FALSE]

\* The heuristic is modelled for ratios total_size / 1500 below 2^30
\* (totals below 1.6 TB): there the float ratio and its float logarithm
\* tell every total from the neighbouring powers of two.  From about
\* 2^38 on they no longer do, and the exponent the code computes can be
\* off by one either way; the piece size is 4194304 for all of these.
\*
\* math.log(x, 2) is computed in floating point as log(x) / log(2): for
\* x = 2^k with k one of these the quotient comes out just above k
\* (29.000000000000004 for k = 29); for every other k below 30 it is k
LOG2_ROUNDS_UP == {29}

RECURSIVE CeilLog2From(_, _)
\* math.ceil(math.log(n, 2)) for a whole number n, 1 <= n < 2^30,
\* searched from k0: the least k with 2^k >= n, and one more when n is a
\* power of two whose logarithm rounds up
CeilLog2From(k0, n) ==
    IF 2^k0 >= n
    THEN (IF 2^k0 = n /\ k0 \in LOG2_ROUNDS_UP THEN k0 + 1 ELSE k0)
    ELSE CeilLog2From(k0 + 1, n)

RECURSIVE CeilLog2Above(_, _)
\* max(0, math.ceil(math.log(x, 2))) for an x strictly between the whole
\* numbers q and q + 1, 0 <= q < 2^30, searched from k0: the least k with
\* 2^k > q
CeilLog2Above(k0, q) == IF 2^k0 > q THEN k0 ELSE CeilLog2Above(k0 + 1, q)

\* the remainder is dropped: floor(total_size / 1500) in place of the ratio
HeurExponent_Floor(q, r) == CeilLog2From(0, q)

\* max(0, math.ceil(math.log(total_size / 1500, 2))) for
\* total_size = 1500*q + r > 0, 0 <= r < 1500, q < 2^30: the
\* ratio is the whole number q when r = 0 and lies strictly between q and
\* q + 1 otherwise.
\* (Sizes are carried as quotient and remainder so that totals beyond
\* 2^31 bytes, where the upper clamp applies, stay representable.)
HeurExponent(q, r) == IF r = 0 THEN CeilLog2From(0, q) ELSE CeilLog2Above(0, q)

\* get_info(): the piece size chosen when none is set
HeuristicPieceSize(q, r) ==
    LET ps == 2^HeurExponent(q, r)
        lo == IF ps < MIN_PIECE_SIZE THEN MIN_PIECE_SIZE ELSE ps
    IN  IF lo > MAX_PIECE_SIZE THEN MAX_PIECE_SIZE ELSE lo

\* get_info()[2]
InfoPieceSize(piece_size, total_size) ==
    IF piece_size # None THEN Val(piece_size)
    ELSE HeuristicPieceSize(total_size \div TARGET_PIECES, total_size % TARGET_PIECES)

\* ------------------------------------------------------------------------
\* Byte strings as sequences of runs <<k, lo, hi>>: bytes lo..hi-1 of the
\* k-th file (0-based) of the file list
\* ------------------------------------------------------------------------
RECURSIVE RunsLen(_)
RunsLen(b) == IF b = <<>> THEN 0 ELSE (Head(b)[3] - Head(b)[2]) + RunsLen(Tail(b))

\* buf[:n] taken for the whole buffer
TakePrefix_Whole(b, n) == b

RECURSIVE TakePrefix(_, _)
\* buf[:n]
TakePrefix(b, n) ==
    IF b = <<>> \/ n <= 0 THEN <<>>
    ELSE LET h == Head(b)
             l == h[3] - h[2]
         IN  IF l <= n THEN <<h>> \o TakePrefix(Tail(b), n - l)
             ELSE << <<h[1], h[2], h[2] + n>> >>

\* del buf[:n] emptying the buffer
DropPrefix_Clear(b, n) == <<>>

RECURSIVE DropPrefix(_, _)
\* del buf[:n]
DropPrefix(b, n) ==
    IF b = <<>> \/ n <= 0 THEN b
    ELSE LET h == Head(b)
             l == h[3] - h[2]
         IN  IF l <= n THEN DropPrefix(Tail(b), n - l)
             ELSE << <<h[1], h[2] + n, h[3]>> >> \o Tail(b)

RECURSIVE Canon(_)
\* the byte string itself, however it was put together: adjacent runs of
\* one file that continue each other are one run
Canon(b) ==
    IF Len(b) <= 1 THEN b
    ELSE LET h == b[1]
             g == b[2]
         IN  IF h[1] = g[1] /\ h[3] = g[2]
             THEN Canon(<< <<h[1], h[2], g[3]>> >> \o SubSeq(b, 3, Len(b)))
             ELSE <<h>> \o Canon(Tail(b))

\* hashlib.sha1(v).digest(): 20 bytes determined by the bytes hashed
sha1_digest(v) == [sha1 |-> v]

\* sha1(piece).digest() for a piece given as runs
sha1(b) == sha1_digest(Canon(b))

\* hashlib's hexdigest()
hexdigest(d) == [hex |-> d]

\* an accumulator that keeps the last chunk only
md5_update_Last(fed, chunk) == chunk

\* md5_hasher.update(chunk): the bytes fed so far, then the chunk
md5_update(fed, chunk) == fed \o chunk

\* hashlib.md5: hexdigest() of the chunks fed by update(), in order
md5_hexdigest(fed) == [md5 |-> Canon(fed)]

\* bencoder.bencode (an external codec): an injective encoding
bencode(v) == [bencoded |-> v]

\* base64.b32encode
b32encode(d) == [b32 |-> d]

\* ------------------------------------------------------------------------
\* URL lists: the trackers and web_seeds setters
\* ------------------------------------------------------------------------
\* A URL is what urlparse makes of it: [scheme, netloc, id]
Url(scheme, netloc, id) == [scheme |-> scheme, netloc |-> netloc, id |-> id]

ValidUrl(t) == t.scheme # "" /\ t.netloc # ""

\* `self.trackers = value` / `self.web_seeds = value`: value is None or a
\* list; the first invalid entry raises and the stored list stays.
SetUrlsOutcome(cur, value) ==
    IF value # None /\ Val(value) # <<>>
    THEN IF \A k \in 1..Len(Val(value)) : ValidUrl(Val(value)[k])
         THEN [urls |-> Val(value), raised |-> "none"]
         ELSE [urls |-> cur, raised |-> "InvalidURL"]
    ELSE [urls |-> <<>>, raised |-> "none"]

\* ------------------------------------------------------------------------
\* The metainfo document: an OrderedDict is a sequence of <<key, value>>
\* ------------------------------------------------------------------------
HasKey(d, key) == \E k \in 1..Len(d) : d[k][1] = key

Get(d, key) == d[CHOOSE k \in 1..Len(d) : d[k][1] = key][2]

Keys(d) == [k \in 1..Len(d) |-> d[k][1]]

\* `if s:` for an optional string
TruthyStr(s) == s # None /\ Val(s) # ""

\* announce emitted next to announce-list
AnnounceItems_Both(trk) ==
    IF Len(trk) >= 1
    THEN << <<"announce", Encode(trk[1])>>,
            <<"announce-list", [k \in 1..Len(trk) |-> <<Encode(trk[k])>>]>> >>
    ELSE <<>>

\* data['announce'] / data['announce-list']
AnnounceItems(trk) ==
    IF Len(trk) = 1 THEN << <<"announce", Encode(trk[1])>> >>
    ELSE IF Len(trk) > 1
         THEN << <<"announce-list", [k \in 1..Len(trk) |-> <<Encode(trk[k])>>]>> >>
         ELSE <<>>

\* the entries of data['info']['files'] and data['info']['name']
FilesItems(fl, pth, md5on) ==
    LET path_sp == pth
        fx(x) == << <<"length", x.fsize>> >>
                 \o (IF md5on THEN << <<"md5sum", Val(x.md5sum)>> >> ELSE <<>>)
                 \o << <<"path", [k \in 1..(Len(x.fpath) - Min(Len(path_sp), Len(x.fpath)))
                                    |-> Encode(x.fpath[k + Len(path_sp)])]>> >>
    IN  << <<"files", [k \in 1..Len(fl) |-> fx(fl[k])]>>,
           <<"name", Encode(Last(path_sp))>> >>

\* data['info'] for a single file
SingleItems(fl, md5on) ==
    << <<"length", fl[1].fsize>> >>
    \o (IF md5on THEN << <<"md5sum", Val(fl[1].md5sum)>> >> ELSE <<>>)
    \o << <<"name", Encode(Last(fl[1].fpath))>> >>

\* generate(): "Create the torrent data structure"
BuildData(trk, cmt, creator, cdate, seeds, single, fl, pth, md5on, pcs, ps, priv, src) ==
    AnnounceItems(trk)
    \o (IF TruthyStr(cmt) THEN << <<"comment", Encode(Val(cmt))>> >> ELSE <<>>)
    \o (IF TruthyStr(creator) THEN << <<"created by", Encode(Val(creator))>> >>
        ELSE << <<"created by", Encode(DEFAULT_CREATOR)>> >>)
    \o (IF cdate # None THEN << <<"creation date", Val(cdate)>> >> ELSE <<>>)
    \o (IF seeds # <<>>
        THEN << <<"url-list", [k \in 1..Len(seeds) |-> Encode(seeds[k])]>> >> ELSE <<>>)
    \o << <<"info",
            (IF single THEN SingleItems(fl, md5on) ELSE FilesItems(fl, pth, md5on))
            \o << <<"pieces", pcs>>,
                  <<"piece length", ps>>,
                  <<"private", IF priv THEN 1 ELSE 0>> >>
            \o (IF TruthyStr(src) THEN << <<"source", Encode(Val(src))>> >> ELSE <<>>)>> >>

\* getattr(self, '_data', None) is truthy
HasData(d) == d # None /\ Val(d) # <<>>

\* ------------------------------------------------------------------------
\* Inputs
\* ------------------------------------------------------------------------
NameF == <<"f">>

NameD == <<"d">>

NameHidden == <<".", "h">>

NameExcluded == <<"x", ".", "t">>

NameEmpty == <<"z">>

PatternT == <<"*", ".", "t">>

FileNames == <<<<"a">>, <<"b">>, <<"c">>, <<"e">>>>

FileSizes == {8192, 10000, 16384, 32768, 40000}

\* the walks of a flat directory of n files named a, b, ... with sizes
\* from FileSizes
FlatWalks(n) ==
    {[k \in 1..n |-> Entry(<<>>, FileNames[k], sz[k])] : sz \in [1..n -> FileSizes]}

\* a directory where files that do not count surround the ones that do
MixedWalk ==
    <<Entry(<<>>, NameHidden, 100), Entry(<<>>, FileNames[1], 10000),
      Entry(<<>>, NameEmpty, 0), Entry(<<>>, NameExcluded, 5000),
      Entry(<<>>, FileNames[2], 10000)>>

\* a directory without a file that counts
SkippedWalk ==
    <<Entry(<<>>, NameHidden, 100), Entry(<<>>, NameEmpty, 0),
      Entry(<<>>, NameExcluded, 5000)>>

HashTrees ==
    {FileTree(<<NameF>>, sz) : sz \in FileSizes}
    \cup {DirTree(<<NameD>>, w) : w \in UNION {FlatWalks(n) : n \in 1..MaxFiles}}
    \cup {DirTree(<<NameD>>, MixedWalk)}

LifeTrees ==
    {FileTree(<<NameF>>, 20000), FileTree(<<NameF>>, 0),
     DirTree(<<NameD>>, MixedWalk), DirTree(<<NameD>>, SkippedWalk)}

NameS == <<"s">>

\* a directory with a file in it and a file in its subdirectory s
NestedWalk ==
    <<Entry(<<>>, FileNames[1], 10000), Entry(<<NameS>>, FileNames[2], 10000)>>

\* the same directory with a hidden, an empty and an excluded file as well
NestedMixedWalk ==
    <<Entry(<<>>, NameHidden, 100), Entry(<<>>, FileNames[1], 10000),
      Entry(<<NameS>>, NameEmpty, 0), Entry(<<NameS>>, FileNames[2], 10000),
      Entry(<<NameS>>, NameExcluded, 5000)>>

\* the path arguments d, d/, ./d, x/y, x//y/, . and /
RootArgs ==
    {<<NameD>>, <<NameD, <<>>>>, <<Dot, NameD>>, <<<<"x">>, <<"y">>>>,
     <<<<"x">>, <<>>, <<"y">>, <<>>>>, <<Dot>>, <<<<>>, <<>>>>}

PathTrees == {DirTree(a, w) : a \in RootArgs, w \in {NestedWalk, NestedMixedWalk}}

\* arguments of the piece_size setter
PieceSizeInputs ==
    {None, Some(0), Some(-16384), Some(3), Some(8192), Some(16384), Some(24576),
     Some(8388608)}

U1 == Url("http", "t1", 1)

U2 == Url("udp", "t2", 2)

UBad == Url("", "t9", 9)

U3 == Url("https", "t3", 3)

U4 == Url("http", "t4", 4)

UrlsUp == <<U1, U2, U3, U4>>

UrlsDown == <<U4, U3, U2, U1>>

\* tracker lists of up to MaxTrackers URLs, in two orders
TrackerLists ==
    {SubSeq(UrlsUp, 1, n) : n \in 0..MaxTrackers}
    \cup {SubSeq(UrlsDown, 1, n) : n \in 0..MaxTrackers}

\* arguments of the trackers setter
TrackerInputs ==
    {None} \cup {Some(q) : q \in TrackerLists} \cup {Some(<<U1, UBad>>)}

\* sizes for the heuristic, as quotient and remainder by 1500, around
\* every power of two up to 2^MaxExp
HeurQuotients ==
    {q \in {0} \cup UNION {{2^k - 1, 2^k, 2^k + 1} : k \in 0..MaxExp} : q < 2^30}

HeurRemainders == {0, 1, 1499}

\* ------------------------------------------------------------------------
\* State
\* ------------------------------------------------------------------------
VARIABLES
    tree, present,          \* the file system: what is at the path, and whether it is there
    path, trackers, web_seeds, piece_size, private, source, exclude,
    creation_date, comment, created_by, include_md5,   \* the Torrent's fields
    pieces, data,           \* self._pieces and self._data (None: no such attribute)
    generated,              \* whether a generate() has returned True so far
    at,                     \* where generate() stands: idle, loop, read, tail
    callback,               \* generate()'s argument: whether a callback was given
    files, single_file, total_size, i, num_pieces, pc, buf, f, md5_hasher,
                            \* generate()'s locals while it runs
    handles,                \* the files that are open
    opened,                 \* the paths opened by the last generate(), in order
    calls,                  \* the callback invocations of the last generate()
    ret,                    \* the last operation and its outcome
    hq, hr, hps,            \* a total size 1500*hq + hr and the piece size chosen for it
    past,                   \* how the generate() calls made so far have ended
    nset                    \* the number of assignments made to the Torrent's fields

cfgvars == <<path, trackers, web_seeds, piece_size, private, source, exclude,
             creation_date, comment, created_by, include_md5>>

locvars == <<callback, files, single_file, total_size, i, num_pieces, pc, buf, f,
             md5_hasher>>

logvars == <<handles, opened, calls>>

heurvars == <<hq, hr, hps>>

envvars == <<tree, present>>

histvars == <<past, nset>>

vars == <<envvars, cfgvars, pieces, data, generated, at, locvars, logvars, ret, heurvars,
          histvars>>

\* The last operation: its name, what it returned or raised (out, val),
\* whether it was given a callback (cb), whether it evaluated the
\* piece-size heuristic (heur), and for generate() how the calls before it
\* had ended (prior)
RetH(op, out, val, heur) ==
    [op |-> op, out |-> out, val |-> val, cb |-> FALSE, heur |-> heur, prior |-> {}]

RetG(out, cb, heur, prior) ==
    [op |-> "generate", out |-> out, val |-> None, cb |-> cb, heur |-> heur,
     prior |-> prior]

\* a generate() call ends with outcome out
Ended(out) == past' = past \cup {out}

Ret(op, out, val) == RetH(op, out, val, FALSE)

\* generate() is not running: its locals do not exist
NoLocals ==
    /\ callback = FALSE
    /\ files = <<>>
    /\ single_file = FALSE
    /\ total_size = 0
    /\ i = 0
    /\ num_pieces = 0
    /\ pc = 0
    /\ buf = <<>>
    /\ f = None
    /\ md5_hasher = None

\* generate() returns or raises: its locals are gone
LocalsGone ==
    /\ callback' = FALSE
    /\ files' = <<>>
    /\ single_file' = FALSE
    /\ total_size' = 0
    /\ i' = 0
    /\ num_pieces' = 0
    /\ pc' = 0
    /\ buf' = <<>>
    /\ f' = None
    /\ md5_hasher' = None

\* Torrent.__init__ with the path of tree t, piece size ps, trackers trk
\* and the MD5 flag md5on (arguments the setters accept); the other
\* arguments keep their defaults, exclude is ["*.t"].
InitWith(trees, sizes, trks, md5s) ==
    /\ tree \in trees
    /\ present = TRUE
    /\ path = normpath(tree.arg)
    /\ trackers \in trks
    /\ web_seeds = <<>>
    /\ piece_size \in sizes
    /\ private = FALSE
    /\ source = None
    /\ exclude = <<PatternT>>
    /\ creation_date = None
    /\ comment = None
    /\ created_by = None
    /\ include_md5 \in md5s
    /\ pieces = None
    /\ data = None
    /\ generated = FALSE
    /\ at = "idle"
    /\ NoLocals
    /\ handles = {}
    /\ opened = <<>>
    /\ calls = <<>>
    /\ ret = Ret("init", "none", None)
    /\ past = {}
    /\ nset = 0

NoHeur ==
    /\ hq = 0
    /\ hr = 0
    /\ hps = None

Init == InitWith(LifeTrees, {None}, {<<>>}, {FALSE}) /\ NoHeur

\* ------------------------------------------------------------------------
\* The file system changes behind the program's back
\* ------------------------------------------------------------------------
RemovePath ==
    /\ at = "idle"
    /\ present
    /\ present' = FALSE
    /\ UNCHANGED <<tree, cfgvars, pieces, data, generated, at, locvars, logvars, ret, heurvars, histvars>>

RestorePath ==
    /\ at = "idle"
    /\ ~present
    /\ present' = TRUE
    /\ UNCHANGED <<tree, cfgvars, pieces, data, generated, at, locvars, logvars, ret, heurvars, histvars>>

\* ------------------------------------------------------------------------
\* Setters
\* ------------------------------------------------------------------------
SetPieceSize(value) ==
    /\ at = "idle"
    /\ LET o == SetPieceSizeOutcome(piece_size, value)
       IN  /\ piece_size' = o.piece_size
           /\ ret' = Ret("set_piece_size", o.raised, None)
    /\ UNCHANGED <<envvars, path, trackers, web_seeds, private, source, exclude,
                   creation_date, comment, created_by, include_md5,
                   pieces, data, generated, at, locvars, logvars, heurvars, past>>

SetTrackers(value) ==
    /\ at = "idle"
    /\ LET o == SetUrlsOutcome(trackers, value)
       IN  /\ trackers' = o.urls
           /\ ret' = Ret("set_trackers", o.raised, None)
    /\ UNCHANGED <<envvars, path, web_seeds, piece_size, private, source, exclude,
                   creation_date, comment, created_by, include_md5,
                   pieces, data, generated, at, locvars, logvars, heurvars, past>>

SetWebSeeds(value) ==
    /\ at = "idle"
    /\ LET o == SetUrlsOutcome(web_seeds, value)
       IN  /\ web_seeds' = o.urls
           /\ ret' = Ret("set_web_seeds", o.raised, None)
    /\ UNCHANGED <<envvars, path, trackers, piece_size, private, source, exclude,
                   creation_date, comment, created_by, include_md5,
                   pieces, data, generated, at, locvars, logvars, heurvars, past>>

\* The other fields are plain attributes: an assignment stores the value
SetPrivate(value) ==
    /\ at = "idle"
    /\ private' = value
    /\ ret' = Ret("set_private", "none", None)
    /\ UNCHANGED <<envvars, path, trackers, web_seeds, piece_size, source, exclude,
                   creation_date, comment, created_by, include_md5,
                   pieces, data, generated, at, locvars, logvars, heurvars, past>>

SetSource(value) ==
    /\ at = "idle"
    /\ source' = value
    /\ ret' = Ret("set_source", "none", None)
    /\ UNCHANGED <<envvars, path, trackers, web_seeds, piece_size, private, exclude,
                   creation_date, comment, created_by, include_md5,
                   pieces, data, generated, at, locvars, logvars, heurvars, past>>

SetCreationDate(value) ==
    /\ at = "idle"
    /\ creation_date' = value
    /\ ret' = Ret("set_creation_date", "none", None)
    /\ UNCHANGED <<envvars, path, trackers, web_seeds, piece_size, private, source,
                   exclude, comment, created_by, include_md5,
                   pieces, data, generated, at, locvars, logvars, heurvars, past>>

SetComment(value) ==
    /\ at = "idle"
    /\ comment' = value
    /\ ret' = Ret("set_comment", "none", None)
    /\ UNCHANGED <<envvars, path, trackers, web_seeds, piece_size, private, source,
                   exclude, creation_date, created_by, include_md5,
                   pieces, data, generated, at, locvars, logvars, heurvars, past>>

SetCreatedBy(value) ==
    /\ at = "idle"
    /\ created_by' = value
    /\ ret' = Ret("set_created_by", "none", None)
    /\ UNCHANGED <<envvars, path, trackers, web_seeds, piece_size, private, source,
                   exclude, creation_date, comment, include_md5,
                   pieces, data, generated, at, locvars, logvars, heurvars, past>>

SetIncludeMd5(value) ==
    /\ at = "idle"
    /\ include_md5' = value
    /\ ret' = Ret("set_include_md5", "none", None)
    /\ UNCHANGED <<envvars, path, trackers, web_seeds, piece_size, private, source,
                   exclude, creation_date, comment, created_by,
                   pieces, data, generated, at, locvars, logvars, heurvars, past>>

\* one more assignment, while assignments are left
Counted == nset < MaxAssign /\ nset' = nset + 1

\* ------------------------------------------------------------------------
\* get_info()
\* ------------------------------------------------------------------------
\* (total_size, total_files) of get_info(), or what it raises for the path
InfoTotals(pth, t, here, excl) ==
    IF isfile(t, here)
    THEN [raised |-> "none", total_size |-> t.size, total_files |-> 1]
    ELSE IF exists(t, here)
         THEN [raised |-> "none"] @@ WalkTotals(pth, t.walk, excl)
         ELSE [raised |-> "InvalidInput", total_size |-> 0, total_files |-> 0]

\* get_info(): what is raised, or the tuple returned; heur tells whether
\* the heuristic was evaluated
get_info(pth, t, here, excl, psize) ==
    LET tot == InfoTotals(pth, t, here, excl)
    IN  IF tot.raised # "none"
        THEN [out |-> tot.raised, val |-> None, heur |-> FALSE]
        ELSE IF ~(tot.total_files # 0 /\ tot.total_size # 0)
             THEN [out |-> "EmptyInput", val |-> None, heur |-> FALSE]
             ELSE LET ps == InfoPieceSize(psize, tot.total_size)
                  IN  [out |-> "ok",
                       val |-> Some(<<tot.total_size, tot.total_files, ps,
                                      CeilDiv(tot.total_size, ps)>>),
                       heur |-> psize = None]

GetInfo ==
    /\ at = "idle"
    /\ LET r == get_info(path, tree, present, exclude, piece_size)
       IN  ret' = RetH("get_info", r.out, r.val, r.heur)
    /\ UNCHANGED <<envvars, cfgvars, pieces, data, generated, at, locvars, logvars, heurvars, histvars>>

\* ------------------------------------------------------------------------
\* generate()
\* ------------------------------------------------------------------------
\* the file list generate() resolves, or what it raises for the path
ResolveFiles(pth, t, here, excl) ==
    IF isfile(t, here)
    THEN [raised |-> "none", single_file |-> TRUE,
          files |-> <<[fpath |-> pth, fsize |-> t.size, md5sum |-> None]>>]
    ELSE IF exists(t, here)
         THEN [raised |-> "none", single_file |-> FALSE,
               files |-> WalkFiles(pth, t.walk, excl)]
         ELSE [raised |-> "InvalidInput", single_file |-> FALSE, files |-> <<>>]

\* the piece table of the call before is kept
ResetPieces_Kept(old) == IF old = None THEN <<>> ELSE Val(old)

\* `self._pieces = bytearray()`: the piece table a call starts with,
\* whatever the attribute held
ResetPieces(old) == <<>>

\* the document of an earlier call is dropped when a call starts
DataAtStart_Cleared(d) == None

\* self._data while generate() runs: not written before the document is
\* complete (`self._data = data` is the last statement but one)
DataAtStart(d) == d

\* the total size is not looked at
IsEmptyInput_NoTotal(fl, total) == Len(fl) = 0

\* `if not (len(files) and total_size)`
IsEmptyInput(fl, total) == ~(Len(fl) # 0 /\ total # 0)

\* `if len(buf) >= self.piece_size or i == len(files)-1`
CutsPiece(buflen, ps, idx, nfiles) == buflen >= ps \/ idx = nfiles - 1

\* the number of pieces rounded down
NumPieces_Floor(total, ps) == total \div ps

\* num_pieces = math.ceil(total_size / self.piece_size), for total sizes
\* below 2^31 (see CeilDiv)
NumPieces(total, ps) == CeilDiv(total, ps)

\* the callback's answer is not acted upon
CancelRequested_Ignored(invoked, cancel) == FALSE

\* `if callback: cancel = callback(...); if cancel:` -- whether the call
\* is abandoned after a piece, given whether the callback was invoked and
\* what it returned
CancelRequested(invoked, cancel) == invoked /\ cancel

\* a close() that is forgotten
CloseFile_Forgotten(hs, idx) == hs

\* the handles open after f.close() on the file with index idx
CloseFile(hs, idx) == hs \ {idx}

\* The start of generate(cb), up to the first test of the while loop: the
\* file list is resolved, an empty input refused, the piece size chosen
\* when none is set, and the piece table and the buffer start empty.
GenerateStart(cb) ==
    /\ at = "idle"
    /\ opened' = <<>>
    /\ calls' = <<>>
    /\ LET r == ResolveFiles(path, tree, present, exclude)
           total == SumSizes(r.files)
           info == get_info(path, tree, present, exclude, piece_size)
       IN  IF r.raised # "none"
           THEN /\ ret' = RetG(r.raised, cb, FALSE, past)
                /\ Ended(r.raised)
                /\ LocalsGone
                /\ UNCHANGED <<piece_size, pieces, at>>
           ELSE IF IsEmptyInput(r.files, total)
                THEN /\ ret' = RetG("EmptyInput", cb, FALSE, past)
                     /\ Ended("EmptyInput")
                     /\ LocalsGone
                     /\ UNCHANGED <<piece_size, pieces, at>>
                ELSE IF piece_size = None /\ info.out # "ok"
                THEN \* get_info() raises inside generate()
                     /\ ret' = RetG(info.out, cb, FALSE, past)
                     /\ Ended(info.out)
                     /\ LocalsGone
                     /\ UNCHANGED <<piece_size, pieces, at>>
                ELSE /\ callback' = cb
                     /\ single_file' = r.single_file
                     /\ files' = r.files
                     /\ total_size' = total
                     /\ piece_size' =
                           IF piece_size = None
                           THEN SetPieceSizeOutcome(piece_size, Some(Val(info.val)[3])).piece_size
                           ELSE piece_size
                     /\ pieces' = Some(ResetPieces(pieces))
                     /\ i' = 0
                     /\ num_pieces' = NumPieces(total, Val(piece_size'))
                     /\ pc' = 0
                     /\ buf' = <<>>
                     /\ f' = None
                     /\ md5_hasher' = None
                     /\ at' = "loop"
                     /\ ret' = RetG("running", cb, piece_size = None, past)
                     /\ past' = past
    /\ data' = DataAtStart(data)
    /\ UNCHANGED <<envvars, path, trackers, web_seeds, private, source, exclude,
                   creation_date, comment, created_by, include_md5,
                   generated, handles, heurvars, nset>>

\* `while i < len(files)`: the next file is opened
GenOpen ==
    /\ at = "loop"
    /\ i < Len(files)
    /\ f' = Some([k |-> i, pos |-> 0])
    /\ handles' = handles \cup {i}
    /\ opened' = Append(opened, files[i + 1].fpath)
    /\ md5_hasher' = IF include_md5 THEN Some(<<>>) ELSE None
    /\ at' = "read"
    /\ UNCHANGED <<envvars, cfgvars, pieces, data, generated, callback, files, single_file,
                   total_size, i, num_pieces, pc, buf, calls, ret, heurvars, histvars>>

\* One turn of `for chunk in iter(lambda: f.read(self.piece_size), b'')`
\* with a chunk that is not empty; cancel is what the callback returns if
\* it is invoked.
GenReadChunk(cancel) ==
    /\ at = "read"
    /\ LET fe == files[i + 1]
           ps == Val(piece_size)
           n == Min(ps, fe.fsize - Val(f).pos)
           chunk == << <<i, Val(f).pos, Val(f).pos + n>> >>
           whole == buf \o chunk
           cut == CutsPiece(RunsLen(whole), ps, i, Len(files))
           piece == TakePrefix(whole, ps)
           invoked == cut /\ callback
       IN  /\ n > 0
           /\ pieces' = IF cut THEN Some(Append(Val(pieces), sha1(piece))) ELSE pieces
           /\ calls' = IF invoked
                       THEN Append(calls, [filename |-> fe.fpath,
                                           pieces_completed |-> pc + 1,
                                           pieces_total |-> num_pieces, cancel |-> cancel])
                       ELSE calls
           /\ IF CancelRequested(invoked, cancel)
              THEN /\ handles' = CloseFile(handles, i)
                   /\ at' = "idle"
                   /\ ret' = RetG("False", ret.cb, ret.heur, ret.prior)
                   /\ Ended("False")
                   /\ LocalsGone
              ELSE /\ f' = Some([k |-> i, pos |-> Val(f).pos + n])
                   /\ buf' = IF cut THEN DropPrefix(whole, ps) ELSE whole
                   /\ pc' = IF cut THEN pc + 1 ELSE pc
                   /\ md5_hasher' = IF include_md5
                                    THEN Some(md5_update(Val(md5_hasher), chunk))
                                    ELSE md5_hasher
                   /\ UNCHANGED <<handles, at, ret, callback, files, single_file,
                                  total_size, i, num_pieces, past>>
    /\ UNCHANGED <<envvars, cfgvars, data, generated, opened, heurvars, nset>>

\* f.read() returns b'': the for loop ends, the file is closed, i += 1
GenEndOfFile ==
    /\ at = "read"
    /\ Val(f).pos = files[i + 1].fsize
    /\ files' = IF include_md5
                THEN [files EXCEPT ![i + 1].md5sum = Some(md5_hexdigest(Val(md5_hasher)))]
                ELSE files
    /\ handles' = CloseFile(handles, i)
    /\ i' = i + 1
    /\ at' = "loop"
    /\ UNCHANGED <<envvars, cfgvars, pieces, data, generated, callback, single_file, total_size,
                   num_pieces, pc, buf, f, md5_hasher, opened, calls, ret, heurvars, histvars>>

\* open() raises: the error leaves generate() as it is; the files before
\* this one have been closed, the digests appended so far stay in
\* self._pieces
GenOpenFails ==
    /\ at = "loop"
    /\ i < Len(files)
    /\ at' = "idle"
    /\ ret' = RetG("OSError", ret.cb, ret.heur, ret.prior)
    /\ Ended("OSError")
    /\ LocalsGone
    /\ UNCHANGED <<envvars, cfgvars, pieces, data, generated, logvars, heurvars, nset>>

\* the handle of file idx when an error leaves generate() while the file
\* is open: no statement closes it; it is closed once the file object is
\* finalised, which may or may not have happened when the caller looks
\* (finalised), and it is no handle of a later call: it is kept as
\* -(idx + 1)
Abandon(hs, idx, finalised) ==
    IF finalised THEN hs \ {idx} ELSE (hs \ {idx}) \cup {-(idx + 1)}

\* f.read() raises, be it a read of data or the one at the end of the
\* file: the error leaves generate() as it is, past the
\* f.close() of line 253; the digests appended so far stay in self._pieces
GenReadFails(finalised) ==
    /\ at = "read"
    /\ handles' = Abandon(handles, i, finalised)
    /\ at' = "idle"
    /\ ret' = RetG("OSError", ret.cb, ret.heur, ret.prior)
    /\ Ended("OSError")
    /\ LocalsGone
    /\ UNCHANGED <<envvars, cfgvars, pieces, data, generated, opened, calls, heurvars, nset>>

\* `while i < len(files)` fails: on to the remaining data
GenLoopExit ==
    /\ at = "loop"
    /\ ~(i < Len(files))
    /\ at' = "tail"
    /\ UNCHANGED <<envvars, cfgvars, pieces, data, generated, locvars, logvars, ret, heurvars, histvars>>

\* One turn of `while len(buf)`: "Add pieces from any remaining data"
GenTailPiece(cancel) ==
    /\ at = "tail"
    /\ RunsLen(buf) # 0
    /\ LET fe == files[i]
           ps == Val(piece_size)
           piece == TakePrefix(buf, ps)
       IN  /\ pieces' = Some(Append(Val(pieces), sha1(piece)))
           /\ calls' = IF callback
                       THEN Append(calls, [filename |-> fe.fpath,
                                           pieces_completed |-> pc + 1,
                                           pieces_total |-> num_pieces, cancel |-> cancel])
                       ELSE calls
           /\ IF CancelRequested(callback, cancel)
              THEN /\ at' = "idle"
                   /\ ret' = RetG("False", ret.cb, ret.heur, ret.prior)
                   /\ Ended("False")
                   /\ LocalsGone
              ELSE /\ buf' = DropPrefix(buf, ps)
                   /\ pc' = pc + 1
                   /\ UNCHANGED <<at, ret, callback, files, single_file, total_size,
                                  i, num_pieces, f, md5_hasher, past>>
    /\ UNCHANGED <<envvars, cfgvars, data, generated, handles, opened, heurvars, nset>>

\* the buffer is empty: the document is built and stored, generate()
\* returns True
GenBuild ==
    /\ at = "tail"
    /\ RunsLen(buf) = 0
    /\ data' = Some(BuildData(trackers, comment, created_by, creation_date, web_seeds,
                              single_file, files, path, include_md5, Val(pieces),
                              Val(piece_size), private, source))
    /\ generated' = TRUE
    /\ at' = "idle"
    /\ ret' = RetG("True", ret.cb, ret.heur, ret.prior)
    /\ Ended("True")
    /\ LocalsGone
    /\ UNCHANGED <<envvars, cfgvars, pieces, logvars, heurvars, nset>>

\* ------------------------------------------------------------------------
\* The accessors that need a generated document
\* ------------------------------------------------------------------------
InfoHashBase32 ==
    /\ at = "idle"
    /\ ret' = IF HasData(data)
              THEN Ret("info_hash_base32", "ok",
                       Some(b32encode(sha1_digest(bencode(Get(Val(data), "info"))))))
              ELSE Ret("info_hash_base32", "TorrentNotGenerated", None)
    /\ UNCHANGED <<envvars, cfgvars, pieces, data, generated, at, locvars, logvars, heurvars, histvars>>

InfoHash ==
    /\ at = "idle"
    /\ ret' = IF HasData(data)
              THEN Ret("info_hash", "ok",
                       Some(hexdigest(sha1_digest(bencode(Get(Val(data), "info"))))))
              ELSE Ret("info_hash", "TorrentNotGenerated", None)
    /\ UNCHANGED <<envvars, cfgvars, pieces, data, generated, at, locvars, logvars, heurvars, histvars>>

\* dump() without the test for a generated document
dump_Unchecked(d) == [out |-> "ok", val |-> Some(bencode(d))]

\* dump(): what is returned or raised
dump(d) ==
    IF HasData(d) THEN [out |-> "ok", val |-> Some(bencode(Val(d)))]
    ELSE [out |-> "TorrentNotGenerated", val |-> None]

Dump ==
    /\ at = "idle"
    /\ ret' = Ret("dump", dump(data).out, dump(data).val)
    /\ UNCHANGED <<envvars, cfgvars, pieces, data, generated, at, locvars, logvars, heurvars, histvars>>

\* save(fp) on a fresh sink fp: val is what fp.write received, None when
\* nothing was written
Save ==
    /\ at = "idle"
    /\ ret' = Ret("save", dump(data).out, dump(data).val)
    /\ UNCHANGED <<envvars, cfgvars, pieces, data, generated, at, locvars, logvars, heurvars, histvars>>

\* ------------------------------------------------------------------------
\* The heuristic on its own
\* ------------------------------------------------------------------------
ChoosePieceSize ==
    /\ hps = None
    /\ hq + hr > 0
    /\ hps' = Some(HeuristicPieceSize(hq, hr))
    /\ UNCHANGED <<envvars, cfgvars, pieces, data, generated, at, locvars, logvars, ret, hq, hr, histvars>>

\* ------------------------------------------------------------------------
\* Specifications
\* ------------------------------------------------------------------------
\* The life of one Torrent object
Next ==
    \/ RemovePath
    \/ RestorePath
    \/ \E v \in PieceSizeInputs : SetPieceSize(v) /\ UNCHANGED nset
    \/ GetInfo
    \/ \E cb \in BOOLEAN : GenerateStart(cb)
    \/ GenOpen
    \/ \E c \in BOOLEAN : GenReadChunk(c)
    \/ GenEndOfFile
    \/ GenLoopExit
    \/ \E c \in BOOLEAN : GenTailPiece(c)
    \/ GenBuild
    \/ InfoHashBase32
    \/ InfoHash
    \/ Dump
    \/ Save

Spec == Init /\ [][Next]_vars

\* generate() over file lists of every shape
InitHash ==
    /\ InitWith(HashTrees, {None, Some(16384), Some(32768)}, {<<>>}, BOOLEAN)
    /\ NoHeur

NextHash ==
    \/ \E cb \in BOOLEAN : GenerateStart(cb)
    \/ GenOpen
    \/ \E c \in BOOLEAN : GenReadChunk(c)
    \/ GenEndOfFile
    \/ GenLoopExit
    \/ \E c \in BOOLEAN : GenTailPiece(c)
    \/ GenBuild

SpecHash == InitHash /\ [][NextHash]_vars

\* the document built for every list of trackers
InitDoc ==
    /\ InitWith({FileTree(<<NameF>>, 20000), DirTree(<<NameD>>, MixedWalk)},
                {None}, {<<>>}, {FALSE})
    /\ NoHeur

NextDoc ==
    \/ \E v \in TrackerInputs : SetTrackers(v) /\ UNCHANGED nset
    \/ \E cb \in BOOLEAN : GenerateStart(cb)
    \/ GenOpen
    \/ \E c \in BOOLEAN : GenReadChunk(c)
    \/ GenEndOfFile
    \/ GenLoopExit
    \/ \E c \in BOOLEAN : GenTailPiece(c)
    \/ GenBuild
    \/ Dump

SpecDoc == InitDoc /\ [][NextDoc]_vars

\* assignments to the fields between generate() calls: each field is
\* given a value other than the constructor's, piece_size None as well
InitCfg ==
    /\ InitWith({DirTree(<<NameD>>, <<Entry(<<>>, FileNames[1], 10000),
                                      Entry(<<>>, FileNames[2], 10000)>>)},
                {None}, {<<>>}, {FALSE})
    /\ NoHeur

NextCfg ==
    \/ \E v \in {Some(<<U1>>)} : SetTrackers(v) /\ Counted
    \/ \E v \in {Some(<<U2>>)} : SetWebSeeds(v) /\ Counted
    \/ \E v \in {None, Some(32768)} : SetPieceSize(v) /\ Counted
    \/ \E v \in {TRUE} : SetPrivate(v) /\ Counted
    \/ \E v \in {Some("s")} : SetSource(v) /\ Counted
    \/ \E v \in {Some(1)} : SetCreationDate(v) /\ Counted
    \/ \E v \in {Some("c")} : SetComment(v) /\ Counted
    \/ \E v \in {Some("me")} : SetCreatedBy(v) /\ Counted
    \/ \E v \in {TRUE} : SetIncludeMd5(v) /\ Counted
    \/ RemovePath
    \/ RestorePath
    \/ \E cb \in BOOLEAN : GenerateStart(cb)
    \/ GenOpen
    \/ \E c \in BOOLEAN : GenReadChunk(c)
    \/ GenEndOfFile
    \/ GenLoopExit
    \/ \E c \in BOOLEAN : GenTailPiece(c)
    \/ GenBuild
    \/ InfoHash
    \/ Dump

SpecCfg == InitCfg /\ [][NextCfg]_vars

\* directories given by path arguments of every form
InitPath ==
    /\ InitWith(PathTrees, {None}, {<<>>}, BOOLEAN)
    /\ NoHeur

NextPath ==
    \/ \E cb \in BOOLEAN : GenerateStart(cb)
    \/ GenOpen
    \/ \E c \in BOOLEAN : GenReadChunk(c)
    \/ GenEndOfFile
    \/ GenLoopExit
    \/ \E c \in BOOLEAN : GenTailPiece(c)
    \/ GenBuild

SpecPath == InitPath /\ [][NextPath]_vars

\* generate() over files that may fail to open or to read
InitIO ==
    /\ InitWith({FileTree(<<NameF>>, 40000),
                 DirTree(<<NameD>>, <<Entry(<<>>, FileNames[1], 10000),
                                      Entry(<<>>, FileNames[2], 40000)>>)},
                {None, Some(32768)}, {<<>>}, BOOLEAN)
    /\ NoHeur

NextIO ==
    \/ \E cb \in BOOLEAN : GenerateStart(cb)
    \/ GenOpen
    \/ GenOpenFails
    \/ \E c \in BOOLEAN : GenReadChunk(c)
    \/ \E z \in BOOLEAN : GenReadFails(z)
    \/ GenEndOfFile
    \/ GenLoopExit
    \/ \E c \in BOOLEAN : GenTailPiece(c)
    \/ GenBuild

SpecIO == InitIO /\ [][NextIO]_vars

\* the piece-size heuristic over total sizes
InitHeur ==
    /\ InitWith({FileTree(<<NameF>>, 40000)}, {None}, {<<>>}, {FALSE})
    /\ hq \in HeurQuotients
    /\ hr \in HeurRemainders
    /\ hq + hr > 0
    /\ hps = None

NextHeur == ChoosePieceSize

SpecHeur == InitHeur /\ [][NextHeur]_vars

\* ------------------------------------------------------------------------
\* What the claims expect, stated from the file system alone
\* ------------------------------------------------------------------------
\* the sizes of the files of tree t that count, in file-list order
CountedSizes(t) ==
    IF t.kind = "file" THEN <<t.size>>
    ELSE LET counts(e) == e.size > 0 /\ e.fn # NameHidden /\ e.fn # NameExcluded
             kept == SelectSeq(t.walk, counts)
         IN  [k \in 1..Len(kept) |-> kept[k].size]

RECURSIVE SumSeq(_)
SumSeq(q) == IF q = <<>> THEN 0 ELSE Head(q) + SumSeq(Tail(q))

RECURSIVE StreamSlice(_, _, _, _, _)
\* the bytes lo..hi-1 of the concatenation of files of the given sizes,
\* the first of which has index k and starts at offset start
StreamSlice(sizes, k, start, lo, hi) ==
    IF sizes = <<>> THEN <<>>
    ELSE LET a == Max(lo, start)
             b == Min(hi, start + Head(sizes))
         IN  (IF a < b THEN << <<k, a - start, b - start>> >> ELSE <<>>)
             \o StreamSlice(Tail(sizes), k + 1, start + Head(sizes), lo, hi)

\* the 1-based position in the file list of the file holding byte g of
\* the concatenation
OwnerOf(sizes, g) ==
    CHOOSE k \in 1..Len(sizes) :
        /\ SumSeq(SubSeq(sizes, 1, k - 1)) <= g
        /\ g < SumSeq(SubSeq(sizes, 1, k))

\* n = ceil(total / ps), said without a division
IsCeilDiv(n, total, ps) == n * ps >= total /\ (n - 1) * ps < total

Succeeded == ret.op = "generate" /\ ret.out = "True"

Cancelled == ret.op = "generate" /\ ret.out = "False"

\* C1: after a generate() that returned True the piece table holds exactly
\* 20 * ceil(total_size / piece_size) bytes, total_size being the sum of
\* the sizes of the files that count, whatever the file sizes are.
C1_PieceTableLength ==
    Succeeded =>
        LET total == SumSeq(CountedSizes(tree))
            tbl == Get(Get(Val(data), "info"), "pieces")
            bytes == SHA1_LEN * Len(tbl)
        IN  /\ total > 0
            /\ tbl = Val(pieces)
            /\ bytes % 20 = 0
            /\ IsCeilDiv(bytes \div 20, total, Val(piece_size))

\* two files that are not multiples of the piece size, more than one piece
C1_Witness ==
    /\ Succeeded
    /\ Len(CountedSizes(tree)) = 2
    /\ CountedSizes(tree)[1] = 10000
    /\ CountedSizes(tree)[2] = 40000
    /\ Val(piece_size) = 16384
    /\ Len(Val(pieces)) = 4

\* C2: after a generate() that returned True the k-th digest is the hash
\* of the bytes [k*piece_size, min((k+1)*piece_size, total_size)) of the
\* files' contents put together in file-list order.
C2_PieceContents ==
    Succeeded =>
        LET sizes == CountedSizes(tree)
            total == SumSeq(sizes)
            ps == Val(piece_size)
            tbl == Get(Get(Val(data), "info"), "pieces")
        IN  \A k \in 1..Len(tbl) :
                /\ tbl[k] = sha1_digest(StreamSlice(sizes, 0, 0, (k - 1) * ps,
                                                    Min(k * ps, total)))
                /\ RunsLen(tbl[k].sha1) = IF k < Len(tbl) THEN ps ELSE total - (k - 1) * ps

\* files of 10000 and 10000 bytes, piece size 16384: a piece over both
\* files, then one of 3616 bytes
C2_Witness ==
    /\ Succeeded
    /\ CountedSizes(tree) = <<10000, 10000>>
    /\ Val(piece_size) = 16384
    /\ Val(pieces) = <<sha1_digest(<<<<0, 0, 10000>>, <<1, 0, 6384>>>>),
                       sha1_digest(<<<<1, 6384, 10000>>>>)>>

\* C5: the callback is invoked once per piece and in order: the k-th
\* invocation carries pieces_completed = k and pieces_total =
\* ceil(total_size / piece_size), and the path of the file holding the last
\* byte of the k-th piece; a generate() that is not cancelled makes exactly
\* pieces_total invocations, and none without a callback.
C5_CallbackPerPiece ==
    LET sizes == CountedSizes(tree)
        total == SumSeq(sizes)
        fl == ResolveFiles(path, tree, present, exclude).files
    IN  /\ \A k \in 1..Len(calls) :
              /\ calls[k].pieces_completed = k
              /\ IsCeilDiv(calls[k].pieces_total, total, Val(piece_size))
              /\ k <= calls[k].pieces_total
              /\ calls[k].filename =
                    fl[OwnerOf(sizes, Min(k * Val(piece_size), total) - 1)].fpath
        /\ Succeeded =>
              /\ Len(calls) = IF ret.cb THEN Len(Val(pieces)) ELSE 0
              /\ ret.cb => IsCeilDiv(Len(calls), total, Val(piece_size))
        /\ (at # "idle" /\ callback) => Len(calls) = Len(Val(pieces))

\* three invocations, the second for a piece that ends in the second file
C5_Witness ==
    /\ Succeeded
    /\ ret.cb
    /\ CountedSizes(tree) = <<10000, 32768>>
    /\ Val(piece_size) = 16384
    /\ Len(calls) = 3
    /\ calls[2].filename = <<NameD, FileNames[2]>>
    /\ calls[3].pieces_completed = calls[3].pieces_total

\* C6: generate() stops at once when the callback returns a truthy value:
\* that step returns False with no file open and the document untouched,
\* the piece just hashed is the last one and the callback is not invoked
\* again; at most one file is open at any time, none when generate() is
\* not running, and the files are opened in file-list order.
C6_State ==
    LET fl == ResolveFiles(path, tree, present, exclude).files
    IN  /\ Cardinality(handles) <= 1
        /\ at = "idle" => handles = {}
        /\ Len(opened) <= Len(fl)
        /\ \A k \in 1..Len(opened) : opened[k] = fl[k].fpath
        /\ \A k \in 1..(Len(calls) - 1) : ~calls[k].cancel
        /\ (calls # <<>> /\ Last(calls).cancel) =>
              /\ at = "idle"
              /\ Cancelled
              /\ Len(Val(pieces)) = Len(calls)

C6_Step ==
    (Len(calls') > Len(calls) /\ Last(calls').cancel) =>
        /\ at' = "idle"
        /\ handles' = {}
        /\ ret'.op = "generate" /\ ret'.out = "False"
        /\ data' = data
        /\ Len(opened') = Len(opened)

\* C6: a truthy callback return ends generate() at that piece: it returns
\* False, no further piece is hashed and every opened file is closed.
C6_StopsAtOnce == [](C6_State) /\ [][C6_Step]_vars

\* cancelled after the first of four pieces, in the first of two files
C6_Witness ==
    /\ Cancelled
    /\ CountedSizes(tree) = <<40000, 10000>>
    /\ Len(calls) = 1
    /\ Len(opened) = 1
    /\ handles = {}

Accessors == {"info_hash_base32", "info_hash", "dump", "save"}

\* C3 as claimed: after a cancelled generate() no document is retrievable,
\* whatever happened on the instance before.
C3_NothingRetrievable == Cancelled => ~HasData(data)

\* C3 as amended: a cancelled generate() returns False and builds no
\* document; it leaves self._data as it was, so that afterwards the
\* accessors fail with TorrentNotGenerated if no earlier generate() returned
\* True and otherwise still return the document of the last successful one.
C3_CancelStep ==
    (Len(calls') > Len(calls) /\ Last(calls').cancel) =>
        /\ ret'.op = "generate" /\ ret'.out = "False"
        /\ at' = "idle"
        /\ data' = data

C3_AfterCancel ==
    (Cancelled /\ ret'.op \in Accessors) =>
        /\ data' = data
        /\ IF generated
           THEN ret'.out = "ok" /\ ret'.val # None
           ELSE ret'.out = "TorrentNotGenerated" /\ ret'.val = None

\* C3 (amended): a cancelled generate() builds no document; the accessors
\* fail only when no earlier generate() had succeeded, and otherwise still
\* give the earlier document.
C3_CancelKeepsData ==
    /\ [](Cancelled => (HasData(data) <=> generated))
    /\ [][C3_CancelStep]_vars
    /\ [][C3_AfterCancel]_vars

\* a generate() cancelled after an earlier one succeeded, then dump()
C3_Witness ==
    /\ ret.op = "dump"
    /\ ret.out = "ok"
    /\ generated
    /\ calls # <<>>
    /\ Last(calls).cancel

\* C4: info_hash, info_hash_base32, dump() and save() fail with
\* TorrentNotGenerated, save() writing nothing, as long as no generate()
\* has returned True, and succeed from then on.
C4_NeedsGenerate ==
    /\ HasData(data) <=> generated
    /\ ret.op \in Accessors =>
          IF generated
          THEN ret.out = "ok" /\ ret.val # None
          ELSE ret.out = "TorrentNotGenerated" /\ ret.val = None

\* save() after the only generate() so far was cancelled
C4_Witness ==
    /\ ret.op = "save"
    /\ ret.out = "TorrentNotGenerated"
    /\ ~generated
    /\ calls # <<>>
    /\ Last(calls).cancel

IsPowerOfTwo(n) == \E k \in 0..30 : n = 2^k

\* C7: with no piece size set, the size chosen for a total of
\* s = 1500*hq + hr > 0 bytes is a power of two in [16384, 4194304]: the
\* smallest power of two >= s/1500 if that lies in the interval, else the
\* nearer end of the interval.
C7_Heuristic ==
    hps # None =>
        LET p == Val(hps)
            \* x >= s / 1500
            AtLeastRatio(x) == x > hq \/ (x = hq /\ hr = 0)
        IN  /\ IsPowerOfTwo(p)
            /\ MIN_PIECE_SIZE <= p /\ p <= MAX_PIECE_SIZE
            /\ AtLeastRatio(MIN_PIECE_SIZE) => p = MIN_PIECE_SIZE
            /\ ~AtLeastRatio(MAX_PIECE_SIZE \div 2) => p = MAX_PIECE_SIZE
            /\ (~AtLeastRatio(MIN_PIECE_SIZE) /\ AtLeastRatio(MAX_PIECE_SIZE \div 2)) =>
                  AtLeastRatio(p) /\ ~AtLeastRatio(p \div 2)

\* s/1500 is 2^20 and one byte more: the next power of two is chosen
C7_Witness ==
    /\ hq = 1048576
    /\ hr = 1
    /\ hps = Some(2097152)

\* C8 as claimed: the setter raises InvalidPieceSize for zero, negative
\* numbers, numbers that are no power of two and powers of two below 16384,
\* stores every power of two >= 16384 and clears the size for None, so
\* that the stored size is always None or a power of two >= 16384.
C8_SetterStep ==
    \A v \in PieceSizeInputs :
        SetPieceSize(v) =>
            IF v = None
            THEN piece_size' = None /\ ret'.out = "none"
            ELSE IF Val(v) >= 16384 /\ IsPowerOfTwo(Val(v))
                 THEN piece_size' = v /\ ret'.out = "none"
                 ELSE piece_size' = piece_size /\ ret'.out = "InvalidPieceSize"

\* C8: the piece_size setter raises InvalidPieceSize for zero, negative,
\* non-power-of-two and below-minimum values and leaves the size unchanged.
C8_SetterRejects ==
    /\ [](piece_size = None \/ (IsPowerOfTwo(Val(piece_size)) /\ Val(piece_size) >= 16384))
    /\ [][C8_SetterStep]_vars

\* C9: generate() and get_info() raise InvalidInput when the path does not
\* exist and EmptyInput when no file counts or the total size is zero;
\* they do so before a file is opened, before the callback is invoked and
\* before the heuristic is evaluated, and build no document.
C9_Refused(sizes) ==
    /\ ~present => ret'.out = "InvalidInput"
    /\ (present /\ (Len(sizes) = 0 \/ SumSeq(sizes) = 0)) => ret'.out = "EmptyInput"
    /\ (present /\ Len(sizes) # 0 /\ SumSeq(sizes) # 0) =>
          ret'.out \notin {"InvalidInput", "EmptyInput"}
    /\ ret'.out \in {"InvalidInput", "EmptyInput"} =>
          /\ at' = "idle"
          /\ handles' = {}
          /\ ~ret'.heur
          /\ piece_size' = piece_size
          /\ data' = data

C9_Step ==
    /\ (\E cb \in BOOLEAN : GenerateStart(cb)) =>
          /\ ret'.op = "generate"
          /\ C9_Refused(CountedSizes(tree))
          /\ ret'.out \in {"InvalidInput", "EmptyInput"} => opened' = <<>> /\ calls' = <<>>
    /\ GetInfo =>
          /\ ret'.op = "get_info"
          /\ C9_Refused(CountedSizes(tree))
          /\ opened' = opened /\ calls' = calls

\* C9: a missing path raises InvalidInput and an input with no bytes to
\* hash raises EmptyInput, before any file is opened and with no document built.
C9_RefusedAtStart == [][C9_Step]_vars

\* generate() on a file of zero bytes
C9_Witness ==
    /\ ret.op = "generate"
    /\ ret.out = "EmptyInput"
    /\ present
    /\ tree = FileTree(<<NameF>>, 0)

\* C10: the document has neither announce nor announce-list without
\* trackers, announce alone (the URL) with one tracker, and announce-list
\* alone (one single-element list per tracker, in order) with more.
C10_TrackerKeys ==
    Succeeded =>
        LET d == Val(data)
            n == Len(trackers)
        IN  /\ HasKey(d, "announce") <=> n = 1
            /\ HasKey(d, "announce-list") <=> n > 1
            /\ n = 1 => Get(d, "announce") = Encode(trackers[1])
            /\ n > 1 => /\ Len(Get(d, "announce-list")) = n
                        /\ \A k \in 1..n :
                              Get(d, "announce-list")[k] = <<Encode(trackers[k])>>

\* three trackers
C10_Witness ==
    /\ Succeeded
    /\ trackers = <<U4, U3, U2>>
    /\ Get(Val(data), "announce-list") = <<<<Encode(U4)>>, <<Encode(U3)>>, <<Encode(U2)>>>>

\* ------------------------------------------------------------------------
\* The document of a first generate() on a fresh instance, stated from the
\* configuration and the file system alone
\* ------------------------------------------------------------------------
\* the piece table of files of the given sizes cut at ps
FreshPieces(sizes, ps) ==
    LET total == SumSeq(sizes)
    IN  [k \in 1..CeilDiv(total, ps) |->
            sha1_digest(StreamSlice(sizes, 0, 0, (k - 1) * ps, Min(k * ps, total)))]

\* the file list with the MD5 of each file's own bytes
FreshFiles(fl, md5on) ==
    [k \in 1..Len(fl) |->
        [fl[k] EXCEPT !.md5sum = IF md5on
                                 THEN Some([md5 |-> << <<k - 1, 0, fl[k].fsize>> >>])
                                 ELSE None]]

\* the document for the Torrent's fields as they are, with piece size ps0
\* (None: chosen by the heuristic) and the files under the path
FreshDocument(ps0) ==
    LET r == ResolveFiles(path, tree, TRUE, exclude)
        sizes == [k \in 1..Len(r.files) |-> r.files[k].fsize]
        ps == InfoPieceSize(ps0, SumSeq(sizes))
    IN  BuildData(trackers, comment, created_by, creation_date, web_seeds,
                  r.single_file, FreshFiles(r.files, include_md5), path, include_md5,
                  FreshPieces(sizes, ps), ps, private, source)

\* a step in which generate() returns True
Completes == at # "idle" /\ at' = "idle" /\ ret'.op = "generate" /\ ret'.out = "True"

\* a step in which generate() passes its checks and starts hashing
Starts == at = "idle" /\ at' = "loop"

C11_Running ==
    at # "idle" =>
        LET fl == ResolveFiles(path, tree, TRUE, exclude).files
            sizes == [k \in 1..Len(fl) |-> fl[k].fsize]
            fresh == FreshPieces(sizes, Val(piece_size))
        IN  /\ Len(Val(pieces)) <= Len(fresh)
            /\ \A k \in 1..Len(Val(pieces)) : Val(pieces)[k] = fresh[k]
            /\ \A k \in 1..Len(buf) : buf[k][1] \in 0..(Len(fl) - 1)

C11_Step ==
    /\ Starts => pieces' = Some(<<>>) /\ buf' = <<>>
    /\ Completes =>
          data' = Some(FreshDocument(IF ret'.heur THEN None ELSE piece_size))

\* C11: whatever generate() calls came before on the instance (successful,
\* cancelled, failed), a generate() that returns True builds the document
\* that a first generate() on a fresh instance with the same fields and
\* files builds; every call starts with an empty piece table and an empty
\* buffer, and the table of a running call holds digests of this pass only.
C11_HistoryIndependent == [](C11_Running) /\ [][C11_Step]_vars

\* a successful call after a successful, a cancelled and a failed one
C11_Witness ==
    /\ Succeeded
    /\ {"True", "False", "InvalidInput"} \subseteq ret.prior
    /\ Len(Val(pieces)) = 2
    /\ data = Some(FreshDocument(piece_size))

C12_State ==
    /\ (ret.op = "dump" /\ ret.out = "ok") =>
          HasData(data) /\ ret.val = Some(bencode(Val(data)))
    /\ (ret.op = "info_hash" /\ ret.out = "ok") =>
          /\ HasData(data)
          /\ ret.val = Some(hexdigest(sha1_digest(bencode(Get(Val(data), "info")))))

C12_Step ==
    /\ data' # data => Completes
    /\ nset' # nset => data' = data
    /\ (ret'.op = "generate" /\ ret'.out \notin {"True", "running"}) => data' = data

\* C12: a built document is immutable.  What dump() and info_hash return
\* is a function of the stored document alone, and the stored document
\* changes in no step but the one in which a generate() returns True: not
\* in an assignment to a field, not in a generate() that is cancelled or
\* raises.
C12_DocumentImmutable == [](C12_State) /\ [][C12_Step]_vars

\* a cancelled generate() after a successful one and after two assignments
\* made since: the document is still the one built before them
C12_Witness ==
    /\ Cancelled
    /\ "True" \in ret.prior
    /\ nset = 2
    /\ comment = Some("c")
    /\ trackers = <<U1>>
    /\ HasData(data)
    /\ ~HasKey(Val(data), "comment")
    /\ ~HasKey(Val(data), "announce")

\* a step of generate(): one taken while it runs, or one in which it
\* raises at its start
GenerateStep ==
    \/ at # "idle"
    \/ at' # "idle"
    \/ (ret'.op = "generate" /\ ret'.out \in {"InvalidInput", "EmptyInput"})

\* C13: generate() leaves every field the caller supplied with the value
\* it had before the call, however the call ends; a piece size left unset
\* (None) is still None afterwards.
C13_FieldsUntouched == [][GenerateStep => cfgvars' = cfgvars]_vars

\* the MD5 of all the bytes of the file at position k (from 1) of the file
\* list, which has the given size
WholeFileMd5(k, size) == [md5 |-> << <<k - 1, 0, size>> >>]

\* the maps of the document that describe one file each: the info map for
\* a single file, the entries of `files` otherwise
FileMaps(d) ==
    LET info == Get(d, "info")
    IN  IF HasKey(info, "files") THEN Get(info, "files") ELSE <<info>>

C14_Fed ==
    (at = "read" /\ include_md5) =>
        Canon(Val(md5_hasher)) =
            IF Val(f).pos = 0 THEN <<>> ELSE << <<i, 0, Val(f).pos>> >>

C14_Built ==
    Succeeded =>
        LET sizes == CountedSizes(tree)
            maps == FileMaps(Val(data))
        IN  /\ Len(maps) = Len(sizes)
            /\ \A k \in 1..Len(maps) :
                  /\ HasKey(maps[k], "md5sum") <=> include_md5
                  /\ include_md5 =>
                        Get(maps[k], "md5sum") = WholeFileMd5(k, sizes[k])

\* C14: with include_md5 each file's md5sum is the MD5 of that file's own
\* bytes, all of them, in order and once, wherever the piece boundaries
\* fall: while a file is read its accumulator has been fed exactly the
\* bytes read from it so far; every file map of the document has md5sum
\* when include_md5 is set and none has it otherwise.
C14_Md5PerFile == C14_Fed /\ C14_Built

\* files of 10000 and 40000 bytes with piece size 16384: the first piece
\* spans both files and the second file is read in three chunks
C14_Witness ==
    /\ Succeeded
    /\ include_md5
    /\ CountedSizes(tree) = <<10000, 40000>>
    /\ Val(piece_size) = 16384
    /\ Get(FileMaps(Val(data))[1], "md5sum") = [md5 |-> << <<0, 0, 10000>> >>]
    /\ Get(FileMaps(Val(data))[2], "md5sum") = [md5 |-> << <<1, 0, 40000>> >>]

\* the entries of the walk of tree t that count, in file-list order
CountedEntries(t) ==
    LET counts(e) == e.size > 0 /\ e.fn # NameHidden /\ e.fn # NameExcluded
    IN  SelectSeq(t.walk, counts)

\* the segments of the path argument that name something: neither empty
\* nor "."
NamedSegments(arg) ==
    LET named(c) == c # <<>> /\ c # Dot
    IN  SelectSeq(arg, named)

\* C15: in multi-file mode the `path` entry of every file is the non-empty
\* list of its segments relative to the root directory, the directories
\* below the root and then the file name, whatever form the root's path
\* argument has (d, d/, ./d, x/y, . or /), and `name` is the base name of
\* a root that has one.
C15_RelativePaths ==
    (Succeeded /\ tree.kind = "dir") =>
        LET info == Get(Val(data), "info")
            entries == CountedEntries(tree)
            fls == Get(info, "files")
            named == NamedSegments(tree.arg)
        IN  /\ Len(fls) = Len(entries)
            /\ \A k \in 1..Len(fls) :
                  LET rel == entries[k].sub \o <<entries[k].fn>>
                  IN  /\ Get(fls[k], "path") # <<>>
                      /\ Get(fls[k], "path") = [j \in 1..Len(rel) |-> Encode(rel[j])]
            /\ named # <<>> => Get(info, "name") = Encode(Last(named))

\* a step in which an I/O error leaves generate()
Fails == at # "idle" /\ at' = "idle" /\ ret'.op = "generate" /\ ret'.out = "OSError"

\* C16: when opening or reading a file fails, generate() stops there and
\* the I/O error reaches the caller (the call does not return False), the
\* call builds no document, no file handle stays open, and no digest
\* computed before the failure is kept on the instance.
C16_FailsClean ==
    [][Fails =>
        /\ ret'.out \notin {"True", "False"}
        /\ data' = data
        /\ handles' = {}
        /\ (pieces' = None \/ Val(pieces') = <<>>)]_vars
====
